---- MODULE Spec2Model ----
(***************************************************************************)
(* Model of proxy-wddm/kmd/ljb_dxgk_create_device.c:                       *)
(*   LJB_DXGK_CreateDevice  - allocates a shadow LJB_DEVICE, delegates the *)
(*                            call to the inbox driver, tracks what the    *)
(*                            driver returned and links the record into    *)
(*                            GlobalDriverData.ClientDeviceListHead.       *)
(*   LJB_DXGK_FindDevice    - walks the list under the spin lock and       *)
(*                            returns the first record with a given        *)
(*                            hDevice.                                     *)
(* Several threads call the two functions concurrently.  The inbox driver  *)
(* (DriverInitData->DxgkDdiCreateDevice) and the pool allocator are        *)
(* external: their results are nondeterministic choices.                   *)
(***************************************************************************)
EXTENDS Integers, Sequences, FiniteSets, TLC

(***************************************************************************)
(* Bounds of the model.                                                    *)
(***************************************************************************)
MaxCalls == 3
MaxDevices == 2
MaxLiveCalls == 2

Threads == {1, 2}

(***************************************************************************)
(* Program constants (values of the WDK headers the file compiles with).   *)
(* NTSTATUS is a signed 32-bit LONG: 0xC0000001 and 0xC0000017 are         *)
(* negative.                                                               *)
(***************************************************************************)
STATUS_SUCCESS == 0
STATUS_PENDING == 259
STATUS_UNSUCCESSFUL == -1073741823
STATUS_NO_MEMORY == -1073741801
DXGKDDI_INTERFACE_VERSION_WDDM2_0 == 20515
PASSIVE_LEVEL == 0
DISPATCH_LEVEL == 2
NULL == 0

\* Address of GlobalDriverData.ClientDeviceListHead; a pool record with index
\* r has the address r (of the record and of its ListEntry).
listHead == 0

\* NTSTATUS values the inbox driver returns: success, a success-class status
\* other than STATUS_SUCCESS, and a failure.
Statuses == {STATUS_SUCCESS, STATUS_PENDING, STATUS_UNSUCCESSFUL}

\* hAdapter values (Version below gives the interface version of each), the
\* handles the inbox driver hands out, the runtime handles callers pass in
\* (one of the driver's handle values, so that a runtime handle can collide
\* with a driver handle), and the values of the other request fields.  Info block 1
\* is the caller's, info block 2 the inbox driver's own; DeviceInfoAt gives
\* the DXGK_DEVICEINFO a block holds when line 120 reads it.
Adapters == {1, 2}
Handles == {256, 512}
RuntimeHandles == {256}
FlagValues == {1}
Pasids == {7}
KmdProcesses == {85}
CallerInfoPtrs == {NULL, 1}
DriverInfoPtr == 2
DeviceInfoAt == [p \in {1, DriverInfoPtr} |-> 8 + p]

VARIABLES
    pool,                   \* records handed out by LJB_PROXYKMD_GetPoolZero
    ClientDeviceListHead,   \* GlobalDriverData.ClientDeviceListHead
    ClientDeviceListLock,   \* GlobalDriverData.ClientDeviceListLock: owner or 0
    pc,                     \* each thread's position
    hAdapter,               \* argument of LJB_DXGK_CreateDevice
    pCreateDevice,          \* *pCreateDevice, the request the driver mutates
    hDeviceArg,             \* argument of LJB_DXGK_FindDevice
    MyDevice,               \* local MyDevice of either function
    listEntry,              \* local listEntry of LJB_DXGK_FindDevice
    ntStatus,               \* local ntStatus
    oldIrql,                \* local oldIrql
    Blink,                  \* local Blink of InsertTailList
    irql,                   \* current IRQL of the thread
    ret,                    \* value returned by the last call of the thread
    op,                     \* the function the thread is in or was last in
    ncalls,                 \* calls entered so far
    \* history of the current call, read only by the properties
    reqIn,                  \* *pCreateDevice as it was on entry
    entryIrql,              \* IRQL on entry
    dsCalls,                \* times the inbox driver was called
    dsStatus,               \* status the inbox driver returned
    lockAcqs,               \* times the call acquired the lock
    inboxCreated,           \* devices the inbox driver created: record and handle
    lockOrder               \* records in the order their creators took the lock

vars == <<pool, ClientDeviceListHead, ClientDeviceListLock, pc,
          hAdapter, pCreateDevice, hDeviceArg, MyDevice, listEntry, ntStatus,
          oldIrql, irql, ret, op, ncalls, reqIn, entryIrql, dsCalls, dsStatus,
          lockAcqs, Blink, inboxCreated, lockOrder>>

Version(adapter) == IF adapter = 1 THEN 12302 ELSE DXGKDDI_INTERFACE_VERSION_WDDM2_0

\* A variant of NT_SUCCESS that takes every status for success.
NT_SUCCESS_Any(status) == TRUE

\* A variant of NT_SUCCESS that takes STATUS_SUCCESS alone for success.
NT_SUCCESS_OnlyZero(status) == status = STATUS_SUCCESS

\* NT_SUCCESS(Status): ((NTSTATUS)(Status)) >= 0.
NT_SUCCESS(status) == status >= 0

Requests ==
    [hDevice : RuntimeHandles, Flags : FlagValues, Pasid : Pasids,
     hKmdProcess : KmdProcesses, pInfo : CallerInfoPtrs]

NoRequest == [hDevice |-> NULL, Flags |-> 0, Pasid |-> 0, hKmdProcess |-> 0, pInfo |-> NULL]

\* LJB_PROXYKMD_GetPoolZero(sizeof(LJB_DEVICE)): every field zero.
ZeroDevice ==
    [allocated |-> TRUE,
     ListEntry |-> [Flink |-> NULL, Blink |-> NULL],
     hRTDevice |-> NULL,
     Adapter |-> NULL,
     CreateDevice |-> NoRequest,
     hDevice |-> NULL,
     DeviceInfo |-> 0]

\* A variant of PopulateDevice without the version test of line 97.
PopulateDevice_Ungated(dev, self, adapter, req) ==
    [dev EXCEPT
        !.ListEntry = [Flink |-> self, Blink |-> self],
        !.hRTDevice = req.hDevice,
        !.Adapter = adapter,
        !.CreateDevice =
            [dev.CreateDevice EXCEPT
                !.hDevice = req.hDevice,
                !.Flags = req.Flags,
                !.Pasid = req.Pasid,
                !.hKmdProcess = req.hKmdProcess]]

\* Lines 90-101: the fields LJB_DXGK_CreateDevice fills in before it
\* delegates.  dev is the zeroed record, self its address.
PopulateDevice(dev, self, adapter, req) ==
    [dev EXCEPT
        !.ListEntry = [Flink |-> self, Blink |-> self],
        !.hRTDevice = req.hDevice,
        !.Adapter = adapter,
        !.CreateDevice =
            [dev.CreateDevice EXCEPT
                !.hDevice = req.hDevice,
                !.Flags = req.Flags,
                !.Pasid = IF Version(adapter) >= DXGKDDI_INTERFACE_VERSION_WDDM2_0
                          THEN req.Pasid ELSE dev.CreateDevice.Pasid,
                !.hKmdProcess = IF Version(adapter) >= DXGKDDI_INTERFACE_VERSION_WDDM2_0
                                THEN req.hKmdProcess ELSE dev.CreateDevice.hKmdProcess]]

\* Line 119: the test that decides whether DeviceInfo is copied.
InfoChanged(dev, req) == req.pInfo # dev.CreateDevice.pInfo

\* A variant of TrackDevice without the store of line 118.
TrackDevice_InfoOnly(dev, req, mem) ==
    [dev EXCEPT
        !.DeviceInfo = IF InfoChanged(dev, req) THEN mem[req.pInfo] ELSE dev.DeviceInfo]

\* A variant of TrackDevice that also refreshes the runtime handle and the
\* saved creation handle from the request the driver has written to.
TrackDevice_RefreshesRuntime(dev, req, mem) ==
    [dev EXCEPT
        !.hDevice = req.hDevice,
        !.hRTDevice = req.hDevice,
        !.CreateDevice = [dev.CreateDevice EXCEPT !.hDevice = req.hDevice],
        !.DeviceInfo = IF InfoChanged(dev, req) THEN mem[req.pInfo] ELSE dev.DeviceInfo]

\* A variant of TrackDevice that takes hDevice from the runtime handle saved
\* at line 91 instead of the handle the driver wrote.
TrackDevice_RuntimeHandle(dev, req, mem) ==
    [dev EXCEPT
        !.hDevice = dev.hRTDevice,
        !.DeviceInfo = IF InfoChanged(dev, req) THEN mem[req.pInfo] ELSE dev.DeviceInfo]

\* Lines 118-120: track what the driver returned.
TrackDevice(dev, req, mem) ==
    [dev EXCEPT
        !.hDevice = req.hDevice,
        !.DeviceInfo = IF InfoChanged(dev, req) THEN mem[req.pInfo] ELSE dev.DeviceInfo]

\* A variant of line 87 that reports a generic failure.
AllocFailureStatus_Generic == STATUS_UNSUCCESSFUL

\* Line 87: the status returned when the pool gives no record.
AllocFailureStatus == STATUS_NO_MEMORY

\* A variant of the failure path that forgets line 109.
FreePool_Leak(p, dev) == p

\* Line 109: LJB_PROXYKMD_FreePool(MyDevice).
FreePool(p, dev) == [p EXCEPT ![dev].allocated = FALSE]

\* Line 112: the status returned when the inbox driver failed.
FailureStatus(status) == status

\* A variant of line 133 that reports plain success.
SuccessStatus_Plain(status) == STATUS_SUCCESS

\* Line 133: the status returned after the record was linked.
SuccessStatus(status) == status

\* A variant of line 155 that compares the runtime handle.
Matches_RuntimeHandle(dev, h) == dev.hRTDevice = h

\* Line 155: the comparison of the scan.
Matches(dev, h) == dev.hDevice = h

\* A variant of Flink that yields the entry itself, not its successor.
Flink_Self(head, p, addr) == addr

\* entry->Flink for the list head or a record's ListEntry.
Flink(head, p, addr) == IF addr = listHead THEN head.Flink ELSE p[addr].ListEntry.Flink

\* InsertTailList(ListHead, Entry) of wdm.h is four stores after one load:
\*   Blink = ListHead->Blink;
\*   Entry->Flink = ListHead;  Entry->Blink = Blink;
\*   Blink->Flink = Entry;     ListHead->Blink = Entry;
\* InsertTailList_Prepare is the load and the two stores into the entry,
\* InsertTailList_Link the two stores that make the entry reachable.
InsertTailList_Prepare(head, p, entry) ==
    [Blink |-> head.Blink,
     pool |-> [p EXCEPT ![entry].ListEntry = [Flink |-> listHead, Blink |-> head.Blink]]]

\* A variant of InsertTailList_Link that links the entry behind the list head,
\* as InsertHeadList does.
InsertTailList_Link_AtHead(head, p, entry, blink) ==
    IF head.Flink = listHead
    THEN [head |-> [Flink |-> entry, Blink |-> entry],
          pool |-> [p EXCEPT ![entry].ListEntry = [Flink |-> listHead, Blink |-> listHead]]]
    ELSE [head |-> [head EXCEPT !.Flink = entry],
          pool |-> [p EXCEPT ![entry].ListEntry = [Flink |-> head.Flink, Blink |-> listHead],
                             ![head.Flink].ListEntry.Blink = entry]]

\* A variant of InsertTailList_Link without the store Blink->Flink = Entry.
InsertTailList_Link_NoForward(head, p, entry, blink) ==
    IF blink = listHead
    THEN [head |-> [Flink |-> entry, Blink |-> entry], pool |-> p]
    ELSE [head |-> [head EXCEPT !.Blink = entry], pool |-> p]

InsertTailList_Link(head, p, entry, blink) ==
    IF blink = listHead
    THEN [head |-> [Flink |-> entry, Blink |-> entry], pool |-> p]
    ELSE [head |-> [head EXCEPT !.Blink = entry],
          pool |-> [p EXCEPT ![blink].ListEntry.Flink = entry]]

\* The records of the list in Flink order, as LJB_DXGK_FindDevice's loop
\* (lines 148-150) visits them.
RECURSIVE Walk(_, _, _, _)
Walk(head, p, addr, fuel) ==
    IF addr = listHead \/ fuel = 0 THEN <<>>
    ELSE <<addr>> \o Walk(head, p, Flink(head, p, addr), fuel - 1)

ListOrder == Walk(ClientDeviceListHead, pool, ClientDeviceListHead.Flink, Len(pool) + 1)

\* Lines 146-163 as one function of the list: the record the loop stops at,
\* or NULL.
RECURSIVE Scan(_, _, _, _, _)
Scan(head, p, addr, h, fuel) ==
    IF addr = listHead \/ fuel = 0 THEN NULL
    ELSE IF Matches(p[addr], h) THEN addr
    ELSE Scan(head, p, Flink(head, p, addr), h, fuel - 1)

LJB_DXGK_FindDevice(h) ==
    Scan(ClientDeviceListHead, pool, ClientDeviceListHead.Flink, h, Len(pool) + 1)

Init ==
    /\ pool = <<>>
    /\ ClientDeviceListHead = [Flink |-> listHead, Blink |-> listHead]
    /\ ClientDeviceListLock = 0
    /\ pc = [t \in Threads |-> "idle"]
    /\ hAdapter = [t \in Threads |-> NULL]
    /\ pCreateDevice = [t \in Threads |-> NoRequest]
    /\ hDeviceArg = [t \in Threads |-> NULL]
    /\ MyDevice = [t \in Threads |-> NULL]
    /\ listEntry = [t \in Threads |-> NULL]
    /\ ntStatus = [t \in Threads |-> 0]
    /\ oldIrql = [t \in Threads |-> PASSIVE_LEVEL]
    /\ irql = [t \in Threads |-> PASSIVE_LEVEL]
    /\ ret = [t \in Threads |-> 0]
    /\ op = [t \in Threads |-> "none"]
    /\ ncalls = 0
    /\ reqIn = [t \in Threads |-> NoRequest]
    /\ entryIrql = [t \in Threads |-> PASSIVE_LEVEL]
    /\ dsCalls = [t \in Threads |-> 0]
    /\ dsStatus = [t \in Threads |-> 0]
    /\ lockAcqs = [t \in Threads |-> 0]
    /\ Blink = [t \in Threads |-> NULL]
    /\ inboxCreated = {}
    /\ lockOrder = <<>>

\* Lines 70-101.  The thread enters LJB_DXGK_CreateDevice at PASSIVE_LEVEL
\* (PAGED_CODE) and asks the pool for a record; the pool may refuse.
CreateDevice_Enter(t) ==
    /\ pc[t] = "idle"
    /\ ncalls < MaxCalls
    /\ \E a \in Adapters, req \in Requests, ok \in BOOLEAN :
        /\ ok => Len(pool) < MaxDevices
        /\ ncalls' = ncalls + 1
        /\ op' = [op EXCEPT ![t] = "create"]
        /\ hAdapter' = [hAdapter EXCEPT ![t] = a]
        /\ pCreateDevice' = [pCreateDevice EXCEPT ![t] = req]
        /\ reqIn' = [reqIn EXCEPT ![t] = req]
        /\ irql' = [irql EXCEPT ![t] = PASSIVE_LEVEL]
        /\ entryIrql' = [entryIrql EXCEPT ![t] = PASSIVE_LEVEL]
        /\ oldIrql' = [oldIrql EXCEPT ![t] = PASSIVE_LEVEL]
        /\ hDeviceArg' = [hDeviceArg EXCEPT ![t] = NULL]
        /\ listEntry' = [listEntry EXCEPT ![t] = NULL]
        /\ ntStatus' = [ntStatus EXCEPT ![t] = 0]
        /\ dsCalls' = [dsCalls EXCEPT ![t] = 0]
        /\ dsStatus' = [dsStatus EXCEPT ![t] = 0]
        /\ lockAcqs' = [lockAcqs EXCEPT ![t] = 0]
        /\ Blink' = [Blink EXCEPT ![t] = NULL]
        /\ IF ok
           THEN /\ pool' = Append(pool, PopulateDevice(ZeroDevice, Len(pool) + 1, a, req))
                /\ MyDevice' = [MyDevice EXCEPT ![t] = Len(pool) + 1]
                /\ ret' = [ret EXCEPT ![t] = 0]
                /\ pc' = [pc EXCEPT ![t] = "c_call"]
           ELSE /\ pool' = pool
                /\ MyDevice' = [MyDevice EXCEPT ![t] = NULL]
                /\ ret' = [ret EXCEPT ![t] = AllocFailureStatus]
                /\ pc' = [pc EXCEPT ![t] = "idle"]
    /\ UNCHANGED <<ClientDeviceListHead, ClientDeviceListLock, inboxCreated, lockOrder>>

\* Line 106.  The inbox driver returns any status; it writes its own handle
\* into the request, and either keeps the info-block pointer it was given or
\* replaces it by a block of its own.
DxgkDdiCreateDevice(t) ==
    /\ pc[t] = "c_call"
    /\ \E st \in Statuses, h \in Handles, p \in {pCreateDevice[t].pInfo, DriverInfoPtr} :
        /\ pCreateDevice' = [pCreateDevice EXCEPT ![t].hDevice = h, ![t].pInfo = p]
        /\ ntStatus' = [ntStatus EXCEPT ![t] = st]
        /\ dsStatus' = [dsStatus EXCEPT ![t] = st]
        /\ inboxCreated' = IF st >= 0
                           THEN inboxCreated \cup {[dev |-> MyDevice[t], hDevice |-> h]}
                           ELSE inboxCreated
    /\ dsCalls' = [dsCalls EXCEPT ![t] = @ + 1]
    /\ pc' = [pc EXCEPT ![t] = "c_check"]
    /\ UNCHANGED <<pool, ClientDeviceListHead, ClientDeviceListLock, hAdapter,
                   hDeviceArg, MyDevice, listEntry, oldIrql, irql, ret, op, ncalls,
                   reqIn, entryIrql, lockAcqs, Blink, lockOrder>>

\* A variant of AfterFailure that goes back to the call of line 106.
AfterFailure_Retry == "c_call"

\* Line 112: the failure path ends the call.
AfterFailure == "idle"

\* Lines 107-113.  LJB_PROXYKMD_FreePool(MyDevice); return ntStatus.
CreateDevice_Fail(t) ==
    /\ pc[t] = "c_check"
    /\ ~NT_SUCCESS(ntStatus[t])
    /\ pool' = FreePool(pool, MyDevice[t])
    /\ ret' = [ret EXCEPT ![t] = FailureStatus(ntStatus[t])]
    /\ pc' = [pc EXCEPT ![t] = AfterFailure]
    /\ UNCHANGED <<ClientDeviceListHead, ClientDeviceListLock, hAdapter,
                   pCreateDevice, hDeviceArg, MyDevice, listEntry, ntStatus, oldIrql,
                   irql, op, ncalls, reqIn, entryIrql, dsCalls, dsStatus, lockAcqs,
                   Blink, inboxCreated, lockOrder>>

\* Lines 118-120.
CreateDevice_Track(t) ==
    /\ pc[t] = "c_check"
    /\ NT_SUCCESS(ntStatus[t])
    /\ pool' = [pool EXCEPT ![MyDevice[t]] = TrackDevice(@, pCreateDevice[t], DeviceInfoAt)]
    /\ pc' = [pc EXCEPT ![t] = "c_acquire"]
    /\ UNCHANGED <<ClientDeviceListHead, ClientDeviceListLock, hAdapter,
                   pCreateDevice, hDeviceArg, MyDevice, listEntry, ntStatus, oldIrql,
                   irql, ret, op, ncalls, reqIn, entryIrql, dsCalls, dsStatus, lockAcqs,
                   Blink, inboxCreated, lockOrder>>

\* A variant of KeAcquireSpinLock that does not wait for the lock to be free.
KeAcquireSpinLock_NoWait(t) ==
    /\ ClientDeviceListLock' = t
    /\ oldIrql' = [oldIrql EXCEPT ![t] = irql[t]]
    /\ irql' = [irql EXCEPT ![t] = DISPATCH_LEVEL]
    /\ lockAcqs' = [lockAcqs EXCEPT ![t] = @ + 1]

\* KeAcquireSpinLock(&GlobalDriverData.ClientDeviceListLock, &oldIrql): the
\* thread spins until the lock is free, then owns it at DISPATCH_LEVEL.
KeAcquireSpinLock(t) ==
    /\ ClientDeviceListLock = 0
    /\ ClientDeviceListLock' = t
    /\ oldIrql' = [oldIrql EXCEPT ![t] = irql[t]]
    /\ irql' = [irql EXCEPT ![t] = DISPATCH_LEVEL]
    /\ lockAcqs' = [lockAcqs EXCEPT ![t] = @ + 1]

\* A variant of KeReleaseSpinLock that lowers the IRQL and leaves the lock
\* owned.
KeReleaseSpinLock_KeepsLock(t) ==
    /\ ClientDeviceListLock' = ClientDeviceListLock
    /\ irql' = [irql EXCEPT ![t] = oldIrql[t]]

\* A variant of KeReleaseSpinLock that lowers the IRQL to PASSIVE_LEVEL
\* instead of the level the acquire saved.
KeReleaseSpinLock_ToPassive(t) ==
    /\ ClientDeviceListLock' = 0
    /\ irql' = [irql EXCEPT ![t] = PASSIVE_LEVEL]

\* KeReleaseSpinLock(&GlobalDriverData.ClientDeviceListLock, oldIrql).
KeReleaseSpinLock(t) ==
    /\ ClientDeviceListLock' = 0
    /\ irql' = [irql EXCEPT ![t] = oldIrql[t]]

\* Line 122.
CreateDevice_Acquire(t) ==
    /\ pc[t] = "c_acquire"
    /\ KeAcquireSpinLock(t)
    /\ lockOrder' = Append(lockOrder, MyDevice[t])
    /\ pc' = [pc EXCEPT ![t] = "c_insert"]
    /\ UNCHANGED <<pool, ClientDeviceListHead, hAdapter, pCreateDevice,
                   hDeviceArg, MyDevice, listEntry, ntStatus, ret, op, ncalls, reqIn,
                   entryIrql, dsCalls, dsStatus, Blink, inboxCreated>>

\* Line 123, first half of InsertTailList.
CreateDevice_Insert(t) ==
    /\ pc[t] = "c_insert"
    /\ LET r == InsertTailList_Prepare(ClientDeviceListHead, pool, MyDevice[t])
       IN  /\ Blink' = [Blink EXCEPT ![t] = r.Blink]
           /\ pool' = r.pool
    /\ pc' = [pc EXCEPT ![t] = "c_link"]
    /\ UNCHANGED <<ClientDeviceListHead, ClientDeviceListLock, hAdapter, pCreateDevice,
                   hDeviceArg, MyDevice, listEntry, ntStatus, oldIrql, irql, ret, op,
                   ncalls, reqIn, entryIrql, dsCalls, dsStatus, lockAcqs, inboxCreated, lockOrder>>

\* Line 123, second half of InsertTailList.
CreateDevice_Link(t) ==
    /\ pc[t] = "c_link"
    /\ LET r == InsertTailList_Link(ClientDeviceListHead, pool, MyDevice[t], Blink[t])
       IN  /\ ClientDeviceListHead' = r.head
           /\ pool' = r.pool
    /\ pc' = [pc EXCEPT ![t] = "c_release"]
    /\ UNCHANGED <<ClientDeviceListLock, hAdapter, pCreateDevice, hDeviceArg, MyDevice,
                   listEntry, ntStatus, oldIrql, irql, ret, op, ncalls, reqIn, entryIrql,
                   dsCalls, dsStatus, lockAcqs, Blink, inboxCreated, lockOrder>>

\* Lines 124-133.
CreateDevice_Release(t) ==
    /\ pc[t] = "c_release"
    /\ KeReleaseSpinLock(t)
    /\ ret' = [ret EXCEPT ![t] = SuccessStatus(ntStatus[t])]
    /\ pc' = [pc EXCEPT ![t] = "idle"]
    /\ UNCHANGED <<pool, ClientDeviceListHead, hAdapter, pCreateDevice,
                   hDeviceArg, MyDevice, listEntry, ntStatus, oldIrql, op, ncalls, reqIn,
                   entryIrql, dsCalls, dsStatus, lockAcqs, Blink, inboxCreated, lockOrder>>

\* A variant of ScanStores for a loop whose test reads
\* `thisDevice->hDevice = hDevice`.
ScanStores_Assigns(p, thisDevice, h) == [p EXCEPT ![thisDevice].hDevice = h]

\* The pool after lines 152-159 have run for thisDevice: the loop body reads
\* thisDevice->hDevice and stores to the local MyDevice alone.
ScanStores(p, thisDevice, h) == p

\* Lines 141-146.  LJB_DXGK_FindDevice is entered at PASSIVE_LEVEL or at
\* DISPATCH_LEVEL with any handle.
FindDevice_Begin(t) ==
    /\ pc[t] = "idle"
    /\ \E h \in Handles, lvl \in {PASSIVE_LEVEL, DISPATCH_LEVEL} :
        /\ hDeviceArg' = [hDeviceArg EXCEPT ![t] = h]
        /\ irql' = [irql EXCEPT ![t] = lvl]
        /\ entryIrql' = [entryIrql EXCEPT ![t] = lvl]
        /\ oldIrql' = [oldIrql EXCEPT ![t] = PASSIVE_LEVEL]
    /\ op' = [op EXCEPT ![t] = "find"]
    /\ MyDevice' = [MyDevice EXCEPT ![t] = NULL]
    /\ listEntry' = [listEntry EXCEPT ![t] = NULL]
    /\ hAdapter' = [hAdapter EXCEPT ![t] = NULL]
    /\ pCreateDevice' = [pCreateDevice EXCEPT ![t] = NoRequest]
    /\ reqIn' = [reqIn EXCEPT ![t] = NoRequest]
    /\ ntStatus' = [ntStatus EXCEPT ![t] = 0]
    /\ ret' = [ret EXCEPT ![t] = 0]
    /\ dsCalls' = [dsCalls EXCEPT ![t] = 0]
    /\ dsStatus' = [dsStatus EXCEPT ![t] = 0]
    /\ lockAcqs' = [lockAcqs EXCEPT ![t] = 0]
    /\ Blink' = [Blink EXCEPT ![t] = NULL]
    /\ pc' = [pc EXCEPT ![t] = "f_acquire"]
    /\ UNCHANGED <<pool, ClientDeviceListHead, ClientDeviceListLock,
                   inboxCreated, lockOrder>>

\* A call of LJB_DXGK_FindDevice that the call counter counts.
FindDevice_Enter(t) ==
    /\ ncalls < MaxCalls
    /\ ncalls' = ncalls + 1
    /\ FindDevice_Begin(t)

\* A call of LJB_DXGK_FindDevice past the last counted call: nothing in the
\* code limits the number of lookups a thread makes.
FindDevice_Reenter(t) ==
    /\ ncalls >= MaxLiveCalls
    /\ ncalls' = ncalls
    /\ FindDevice_Begin(t)

\* Lines 147-148: take the lock and start at listHead->Flink.
FindDevice_Acquire(t) ==
    /\ pc[t] = "f_acquire"
    /\ KeAcquireSpinLock(t)
    /\ listEntry' = [listEntry EXCEPT ![t] = ClientDeviceListHead.Flink]
    /\ pc' = [pc EXCEPT ![t] = "f_loop"]
    /\ UNCHANGED <<pool, ClientDeviceListHead, hAdapter, pCreateDevice,
                   hDeviceArg, MyDevice, ntStatus, ret, op, ncalls, reqIn, entryIrql,
                   dsCalls, dsStatus, Blink, inboxCreated, lockOrder>>

\* Lines 149-159: one turn of the loop.
FindDevice_Loop(t) ==
    /\ pc[t] = "f_loop"
    /\ IF listEntry[t] = listHead
       THEN /\ pc' = [pc EXCEPT ![t] = "f_release"]
            /\ UNCHANGED <<pool, MyDevice, listEntry>>
       ELSE LET thisDevice == listEntry[t]
            IN  /\ pool' = ScanStores(pool, thisDevice, hDeviceArg[t])
                /\ IF Matches(pool[thisDevice], hDeviceArg[t])
                   THEN /\ MyDevice' = [MyDevice EXCEPT ![t] = thisDevice]
                        /\ pc' = [pc EXCEPT ![t] = "f_release"]
                        /\ UNCHANGED listEntry
                   ELSE /\ listEntry' = [listEntry EXCEPT ![t] =
                                           Flink(ClientDeviceListHead, pool, listEntry[t])]
                        /\ UNCHANGED <<pc, MyDevice>>
    /\ UNCHANGED <<ClientDeviceListHead, ClientDeviceListLock, hAdapter,
                   pCreateDevice, hDeviceArg, ntStatus, oldIrql, irql, ret, op, ncalls,
                   reqIn, entryIrql, dsCalls, dsStatus, lockAcqs, Blink, inboxCreated, lockOrder>>

\* Lines 161-163.
FindDevice_Release(t) ==
    /\ pc[t] = "f_release"
    /\ KeReleaseSpinLock(t)
    /\ ret' = [ret EXCEPT ![t] = MyDevice[t]]
    /\ pc' = [pc EXCEPT ![t] = "idle"]
    /\ UNCHANGED <<pool, ClientDeviceListHead, hAdapter, pCreateDevice,
                   hDeviceArg, MyDevice, listEntry, ntStatus, oldIrql, op, ncalls, reqIn,
                   entryIrql, dsCalls, dsStatus, lockAcqs, Blink, inboxCreated, lockOrder>>

Next ==
    \E t \in Threads :
        \/ CreateDevice_Enter(t)
        \/ DxgkDdiCreateDevice(t)
        \/ CreateDevice_Fail(t)
        \/ CreateDevice_Track(t)
        \/ CreateDevice_Acquire(t)
        \/ CreateDevice_Insert(t)
        \/ CreateDevice_Link(t)
        \/ CreateDevice_Release(t)
        \/ FindDevice_Enter(t)
        \/ FindDevice_Acquire(t)
        \/ FindDevice_Loop(t)
        \/ FindDevice_Release(t)

Spec == Init /\ [][Next]_vars

\* The steps of a call in progress: everything but the entry into a function.
Proceed(t) ==
    \/ DxgkDdiCreateDevice(t)
    \/ CreateDevice_Fail(t)
    \/ CreateDevice_Track(t)
    \/ CreateDevice_Acquire(t)
    \/ CreateDevice_Insert(t)
    \/ CreateDevice_Link(t)
    \/ CreateDevice_Release(t)
    \/ FindDevice_Acquire(t)
    \/ FindDevice_Loop(t)
    \/ FindDevice_Release(t)

\* A counted call of LJB_DXGK_CreateDevice.  The adapter and the caller's info
\* block decide which fields lines 97-101 and 120 copy, not the path the call
\* takes, so one adapter and one info pointer stand for all.
LiveCreateDevice_Enter(t) ==
    /\ ncalls < MaxLiveCalls
    /\ CreateDevice_Enter(t)
    /\ hAdapter'[t] = 1
    /\ pCreateDevice'[t].pInfo = NULL

\* A counted call of LJB_DXGK_FindDevice.
LiveFindDevice_Enter(t) ==
    /\ ncalls < MaxLiveCalls
    /\ FindDevice_Enter(t)

\* MaxLiveCalls counted calls of either function, then lookups without end.
LiveNext ==
    \E t \in Threads :
        \/ LiveCreateDevice_Enter(t)
        \/ LiveFindDevice_Enter(t)
        \/ FindDevice_Reenter(t)
        \/ Proceed(t)

\* Every thread inside a call keeps running, and the inbox driver's call
\* returns: weak fairness of each thread's steps.  The spin lock itself
\* promises no order among the threads that wait for it.
LiveSpec == Init /\ [][LiveNext]_vars /\ \A t \in Threads : WF_vars(Proceed(t))

(***************************************************************************)
(* Vocabulary of the properties.                                           *)
(***************************************************************************)
Devices == DOMAIN pool

InList(r) == \E i \in DOMAIN ListOrder : ListOrder[i] = r

Occurrences(r) == Cardinality({i \in DOMAIN ListOrder : ListOrder[i] = r})

\* The inbox driver's creation call for record r has returned success.
Created(r) == \E e \in inboxCreated : e.dev = r

\* The LJB_DXGK_CreateDevice call that allocated record r has not returned.
InProgress(r) == \E t \in Threads : op[t] = "create" /\ MyDevice[t] = r /\ pc[t] # "idle"

\* Thread t is back from a LJB_DXGK_CreateDevice call that got its record.
ReturnedCreate(t) == pc[t] = "idle" /\ op[t] = "create" /\ MyDevice[t] # NULL

\* Thread t is back from a LJB_DXGK_CreateDevice call the pool refused.
ReturnedNoMemory(t) == pc[t] = "idle" /\ op[t] = "create" /\ MyDevice[t] = NULL

\* The first record in list order whose hDevice is h, or NULL.
FirstMatch(h) ==
    LET hits == {i \in DOMAIN ListOrder : pool[ListOrder[i]].hDevice = h}
    IN  IF hits = {} THEN NULL
        ELSE ListOrder[CHOOSE i \in hits : \A j \in hits : i <= j]

\* No record ahead of r in the list carries r's hDevice.
NoEarlierSameHandle(r) ==
    \A i \in DOMAIN ListOrder :
        (\A j \in 1..i : ListOrder[j] # r) => pool[ListOrder[i]].hDevice # pool[r].hDevice

\* The handles the inbox driver returned for the devices it created differ.
DriverHandlesDistinct ==
    \A e1, e2 \in inboxCreated : e1.dev # e2.dev => e1.hDevice # e2.hDevice

NoDuplicateHandle ==
    \A i, j \in DOMAIN ListOrder :
        i # j => pool[ListOrder[i]].hDevice # pool[ListOrder[j]].hDevice

(***************************************************************************)
(* C1.  As claimed: after a LJB_DXGK_CreateDevice call has returned a      *)
(* success status, LJB_DXGK_FindDevice of the handle the driver wrote into *)
(* the request returns that call's record, and the record occurs exactly   *)
(* once in the list.  The code does not establish this when the driver     *)
(* returned the same handle for an earlier record.                         *)
(***************************************************************************)
C1_Original ==
    \A t \in Threads :
        (ReturnedCreate(t) /\ NT_SUCCESS(ret[t])) =>
            /\ LJB_DXGK_FindDevice(pCreateDevice[t].hDevice) = MyDevice[t]
            /\ Occurrences(MyDevice[t]) = 1

\* C1, amended: after a LJB_DXGK_CreateDevice call has returned a success
\* status, its record occurs exactly once in the list and carries the handle
\* the driver wrote into the request, LJB_DXGK_FindDevice of that handle
\* returns a record, and it returns that call's record whenever no record
\* ahead of it in the list carries the same handle.
C1_FindAfterCreate ==
    \A t \in Threads :
        (ReturnedCreate(t) /\ NT_SUCCESS(ret[t])) =>
            /\ Occurrences(MyDevice[t]) = 1
            /\ pool[MyDevice[t]].hDevice = pCreateDevice[t].hDevice
            /\ LJB_DXGK_FindDevice(pCreateDevice[t].hDevice) # NULL
            /\ NoEarlierSameHandle(MyDevice[t]) =>
                   LJB_DXGK_FindDevice(pCreateDevice[t].hDevice) = MyDevice[t]

C1_Witness ==
    \E t \in Threads :
        /\ ReturnedCreate(t) /\ NT_SUCCESS(ret[t])
        /\ Len(ListOrder) = 2
        /\ ListOrder[2] = MyDevice[t]
        /\ pool[ListOrder[1]].hDevice # pool[ListOrder[2]].hDevice
        /\ LJB_DXGK_FindDevice(pCreateDevice[t].hDevice) = MyDevice[t]

(***************************************************************************)
(* C2.  When the inbox driver returns a failure status, the call inserts   *)
(* nothing and never takes the lock, it frees its record, and no lookup    *)
(* ever returns a freed record: the list is the same after the failure     *)
(* path as before it, a freed record is not in the list, is not the result *)
(* of LJB_DXGK_FindDevice for any handle and is not held by any lookup.    *)
(***************************************************************************)
C2_State ==
    /\ \A t \in Threads :
        (ReturnedCreate(t) /\ dsStatus[t] < 0) =>
            /\ ~pool[MyDevice[t]].allocated
            /\ ~InList(MyDevice[t])
            /\ lockAcqs[t] = 0
    /\ \A r \in Devices :
        ~pool[r].allocated =>
            /\ ~InList(r)
            /\ \A h \in Handles \cup {NULL} : LJB_DXGK_FindDevice(h) # r
            /\ \A t \in Threads : op[t] = "find" => MyDevice[t] # r /\ ret[t] # r

C2_Step ==
    \A t \in Threads :
        (pc[t] = "c_check" /\ dsStatus[t] < 0 /\ pc'[t] = "idle") =>
            /\ ListOrder' = ListOrder
            /\ ClientDeviceListHead' = ClientDeviceListHead
            /\ ClientDeviceListLock' = ClientDeviceListLock

\* C2: the state and the step conditions above hold throughout every behaviour.
C2_DownstreamFailure == []C2_State /\ [][C2_Step]_vars

C2_Witness ==
    \E t \in Threads :
        /\ ReturnedCreate(t) /\ dsStatus[t] < 0
        /\ ~pool[MyDevice[t]].allocated
        /\ Len(ListOrder) = 1
        /\ LJB_DXGK_FindDevice(pCreateDevice[t].hDevice) = ListOrder[1]

(***************************************************************************)
(* C3.  When the record was allocated, the status LJB_DXGK_CreateDevice    *)
(* returns is the status the inbox driver returned, failure or success     *)
(* class alike; otherwise it is STATUS_NO_MEMORY, the one status the layer *)
(* originates.                                                             *)
(***************************************************************************)
C3_StatusPassThrough ==
    \A t \in Threads :
        /\ ReturnedCreate(t) => dsCalls[t] = 1 /\ ret[t] = dsStatus[t]
        /\ ReturnedNoMemory(t) => ret[t] = STATUS_NO_MEMORY

C3_Witness ==
    \E t1, t2 \in Threads :
        /\ ReturnedCreate(t1) /\ ret[t1] = STATUS_PENDING /\ dsStatus[t1] = STATUS_PENDING
        /\ ReturnedCreate(t2) /\ ret[t2] = STATUS_UNSUCCESSFUL

(***************************************************************************)
(* C4.  When the pool gives no record, LJB_DXGK_CreateDevice returns       *)
(* STATUS_NO_MEMORY, the inbox driver was not called for the request, the  *)
(* request is as it was on entry, and the step changes neither the pool,   *)
(* the list nor the lock.                                                  *)
(***************************************************************************)
C4_State ==
    \A t \in Threads :
        ReturnedNoMemory(t) =>
            /\ ret[t] = STATUS_NO_MEMORY
            /\ dsCalls[t] = 0
            /\ pCreateDevice[t] = reqIn[t]
            /\ lockAcqs[t] = 0

\* A step that enters a call and moves no thread is a call that returned at
\* line 87: every other entry leaves its thread inside the function.
C4_Step ==
    (ncalls' = ncalls + 1 /\ pc' = pc) =>
        /\ \E t \in Threads : ReturnedNoMemory(t)'
        /\ pool' = pool
        /\ ClientDeviceListHead' = ClientDeviceListHead
        /\ ClientDeviceListLock' = ClientDeviceListLock
        /\ inboxCreated' = inboxCreated

\* C4: the state and the step conditions above hold throughout every behaviour.
C4_AllocationFailure == []C4_State /\ [][C4_Step]_vars

C4_Witness ==
    \E t \in Threads :
        /\ ReturnedNoMemory(t)
        /\ ret[t] = STATUS_NO_MEMORY
        /\ reqIn[t].pInfo # NULL
        /\ Len(pool) = 1 /\ Len(ListOrder) = 1

(***************************************************************************)
(* C5.  As claimed: on a successful creation DeviceInfo is captured if and *)
(* only if the info-block pointer in the request after the inbox driver's  *)
(* call differs from the pointer the caller passed in.  (A captured        *)
(* DeviceInfo is nonzero: every info block holds a nonzero value.)         *)
(***************************************************************************)
C5_Original ==
    \A t \in Threads :
        (/\ op[t] = "create" /\ MyDevice[t] # NULL /\ dsStatus[t] >= 0
         /\ pc[t] \in {"c_acquire", "c_insert", "c_link", "c_release", "idle"}) =>
            (pool[MyDevice[t]].DeviceInfo # 0 <=> pCreateDevice[t].pInfo # reqIn[t].pInfo)

(***************************************************************************)
(* C6.  As claimed: no two records of the list carry the same hDevice,     *)
(* whatever handles the inbox driver returns.                              *)
(***************************************************************************)
C6_Original == NoDuplicateHandle

\* C6, amended: no two records of the list carry the same hDevice, as long
\* as the handles the inbox driver returned for the devices it created are
\* pairwise distinct.
C6_UniqueHandles == DriverHandlesDistinct => NoDuplicateHandle

C6_Witness ==
    /\ Len(ListOrder) = 2
    /\ DriverHandlesDistinct
    /\ Cardinality(inboxCreated) = 2
    /\ pool[ListOrder[1]].hRTDevice = pool[ListOrder[2]].hRTDevice

(***************************************************************************)
(* C7.  As claimed: in every state a record is in the list if and only if  *)
(* the inbox driver's creation call for it has succeeded.                  *)
(***************************************************************************)
C7_Original == \A r \in Devices : InList(r) <=> Created(r)

\* C7, amended: every record in the list is one whose inbox creation call
\* has succeeded, and every record whose inbox creation call has succeeded is
\* in the list once its LJB_DXGK_CreateDevice call has returned (between the
\* driver's return and the insertion it is not yet in the list).
C7_RegisteredIffCreated ==
    \A r \in Devices :
        /\ InList(r) => Created(r)
        /\ (Created(r) /\ ~InProgress(r)) => InList(r)

C7_Witness ==
    \E r1, r2 \in Devices :
        /\ InList(r1) /\ Created(r1) /\ ~InProgress(r1)
        /\ Created(r2) /\ InProgress(r2) /\ ~InList(r2)

(***************************************************************************)
(* C8.  When all calls have returned and the inbox driver returned         *)
(* pairwise distinct handles for the devices it created, the list holds    *)
(* exactly one entry per created device, each found by its own handle,     *)
(* under every interleaving of the callers.                                *)
(***************************************************************************)
C8_ConcurrentCreates ==
    ((\A t \in Threads : pc[t] = "idle") /\ DriverHandlesDistinct) =>
        /\ Len(ListOrder) = Cardinality(inboxCreated)
        /\ \A e \in inboxCreated :
            /\ Occurrences(e.dev) = 1
            /\ pool[e.dev].hDevice = e.hDevice
            /\ LJB_DXGK_FindDevice(e.hDevice) = e.dev

C8_Witness ==
    /\ \A t \in Threads : ReturnedCreate(t) /\ NT_SUCCESS(ret[t])
    /\ DriverHandlesDistinct
    /\ ListOrder = <<2, 1>>
    /\ MyDevice[1] # MyDevice[2]

(***************************************************************************)
(* C9.  The Pasid and hKmdProcess of a record's CreateDevice are the       *)
(* request's values when the adapter's interface version is at least       *)
(* DXGKDDI_INTERFACE_VERSION_WDDM2_0, and zero below it whatever the       *)
(* request holds.                                                          *)
(***************************************************************************)
C9_ProcessAssociation ==
    \A t \in Threads :
        (op[t] = "create" /\ MyDevice[t] # NULL /\ pool[MyDevice[t]].allocated) =>
            LET d == pool[MyDevice[t]].CreateDevice
            IN  IF Version(hAdapter[t]) >= DXGKDDI_INTERFACE_VERSION_WDDM2_0
                THEN d.Pasid = reqIn[t].Pasid /\ d.hKmdProcess = reqIn[t].hKmdProcess
                ELSE d.Pasid = 0 /\ d.hKmdProcess = 0

C9_Witness ==
    \E t1, t2 \in Threads :
        /\ ReturnedCreate(t1) /\ NT_SUCCESS(ret[t1])
        /\ Version(hAdapter[t1]) < DXGKDDI_INTERFACE_VERSION_WDDM2_0
        /\ reqIn[t1].Pasid # 0 /\ pool[MyDevice[t1]].CreateDevice.Pasid = 0
        /\ ReturnedCreate(t2) /\ NT_SUCCESS(ret[t2])
        /\ Version(hAdapter[t2]) >= DXGKDDI_INTERFACE_VERSION_WDDM2_0
        /\ pool[MyDevice[t2]].CreateDevice.Pasid = reqIn[t2].Pasid
        /\ pool[MyDevice[t2]].CreateDevice.hKmdProcess = reqIn[t2].hKmdProcess

(***************************************************************************)
(* C10.  When the scan of LJB_DXGK_FindDevice is over, MyDevice is the     *)
(* first record in list order whose hDevice equals the argument, and NULL  *)
(* exactly when no record has that hDevice; the runtime handle plays no    *)
(* part.  The value returned is that MyDevice.                             *)
(***************************************************************************)
C10_FirstMatch ==
    \A t \in Threads :
        /\ pc[t] = "f_release" =>
            /\ MyDevice[t] = FirstMatch(hDeviceArg[t])
            /\ MyDevice[t] = NULL <=>
                   \A r \in Devices : InList(r) => pool[r].hDevice # hDeviceArg[t]
        /\ (pc[t] = "idle" /\ op[t] = "find") => ret[t] = MyDevice[t]

C10_Witness ==
    \E t \in Threads :
        /\ pc[t] = "f_release"
        /\ Len(ListOrder) = 2
        /\ pool[ListOrder[1]].hDevice # hDeviceArg[t]
        /\ pool[ListOrder[1]].hRTDevice = hDeviceArg[t]
        /\ pool[ListOrder[2]].hDevice = hDeviceArg[t]
        /\ MyDevice[t] = ListOrder[2]

(***************************************************************************)
(* C11.  A thread that owns the lock is neither allocating nor inside the  *)
(* inbox driver's call: a LJB_DXGK_CreateDevice call owns the lock only    *)
(* between line 122 and line 124, after the inbox driver has returned a    *)
(* success status, and owns it for the insertion alone.                    *)
(***************************************************************************)
C11_LockOnlyForInsertion ==
    \A t \in Threads :
        /\ (op[t] = "create" /\ pc[t] \in {"idle", "c_call", "c_check", "c_acquire"}) =>
               ClientDeviceListLock # t
        /\ (op[t] = "create" /\ ClientDeviceListLock = t) =>
               /\ pc[t] \in {"c_insert", "c_link", "c_release"}
               /\ dsCalls[t] = 1
               /\ dsStatus[t] >= 0
               /\ lockAcqs[t] = 1

C11_Witness ==
    \E t1, t2 \in Threads :
        /\ pc[t1] = "c_check" /\ dsStatus[t1] < 0
        /\ pc[t2] = "c_link" /\ ClientDeviceListLock = t2

(***************************************************************************)
(* C12.  A thread that is back from LJB_DXGK_CreateDevice (line 87, line   *)
(* 112 or line 133) or from LJB_DXGK_FindDevice (match, no match, empty    *)
(* list) does not own the lock.                                            *)
(***************************************************************************)
C12_NoLockOnReturn ==
    \A t \in Threads : pc[t] = "idle" => ClientDeviceListLock # t

C12_Witness ==
    \E t1, t2 \in Threads :
        /\ pc[t1] = "idle" /\ op[t1] = "find" /\ ret[t1] # NULL /\ lockAcqs[t1] = 1
        /\ ReturnedCreate(t2) /\ NT_SUCCESS(ret[t2]) /\ lockAcqs[t2] = 1
        /\ ClientDeviceListLock = 0

(***************************************************************************)
(* C13.  A thread that is inside InsertTailList or inside the scan owns    *)
(* the lock, so no two threads are in a critical section together, and a   *)
(* scan never runs while a record is half linked (its own links written,   *)
(* the list not yet pointing at it).                                       *)
(***************************************************************************)
InCriticalSection(t) == pc[t] \in {"c_insert", "c_link", "c_release", "f_loop", "f_release"}

\* Record r has been given its place behind a tail that does not point at it.
HalfLinked(r) ==
    /\ pool[r].allocated
    /\ pool[r].ListEntry.Flink = listHead
    /\ pool[r].ListEntry.Blink # r
    /\ Flink(ClientDeviceListHead, pool, pool[r].ListEntry.Blink) # r

C13_AccessUnderLock ==
    /\ \A t \in Threads : InCriticalSection(t) => ClientDeviceListLock = t
    /\ \A t1, t2 \in Threads :
        (t1 # t2 /\ InCriticalSection(t1)) => ~InCriticalSection(t2)
    /\ \A t \in Threads :
        pc[t] \in {"f_loop", "f_release"} => \A r \in Devices : ~HalfLinked(r)

C13_Witness ==
    \E t1, t2 \in Threads :
        /\ pc[t1] = "c_link" /\ HalfLinked(MyDevice[t1]) /\ Len(ListOrder) = 1
        /\ pc[t2] = "f_acquire"

(***************************************************************************)
(* C14.  hDevice of a record is written once, by its creator at lines      *)
(* 118-120 after the inbox driver returned success and before the record   *)
(* is in the list; every record in the list carries the handle the driver  *)
(* returned for it, and hDevice and DeviceInfo of a record in the list do  *)
(* not change.                                                             *)
(***************************************************************************)
C14_State ==
    \A r \in Devices :
        InList(r) => \E e \in inboxCreated : e.dev = r /\ e.hDevice = pool[r].hDevice

C14_Step ==
    \A r \in Devices :
        /\ pool'[r].hDevice # pool[r].hDevice =>
            /\ pool[r].hDevice = NULL
            /\ ~InList(r) /\ ~InList(r)'
            /\ \E t \in Threads :
                /\ MyDevice[t] = r /\ pc[t] = "c_check" /\ pc'[t] = "c_acquire"
                /\ dsStatus[t] >= 0
        /\ pool'[r].DeviceInfo # pool[r].DeviceInfo => ~InList(r) /\ ~InList(r)'
        /\ (InList(r) \/ \E t \in Threads : MyDevice[t] = r /\ pc[t] = "c_acquire") =>
            /\ pool'[r].hDevice = pool[r].hDevice
            /\ pool'[r].DeviceInfo = pool[r].DeviceInfo

\* C14: the state and the step conditions above hold throughout every behaviour.
C14_HandleWrittenOnce == []C14_State /\ [][C14_Step]_vars

C14_Witness ==
    \E t1, t2 \in Threads :
        /\ pc[t1] = "f_loop" /\ listEntry[t1] # listHead
        /\ pool[listEntry[t1]].hDevice # NULL
        /\ pool[listEntry[t1]].DeviceInfo # 0
        /\ pc[t2] = "idle" /\ MyDevice[t2] = listEntry[t1]

(***************************************************************************)
(* C15.  hRTDevice and CreateDevice.hDevice of a record hold the handle    *)
(* the request held on entry, and after lines 118-120 hDevice holds the    *)
(* handle found in the same request field after the inbox driver's call;   *)
(* with request handle 0x100 and driver handle 0x200 the record found by   *)
(* handle 0x200 has hRTDevice 0x100.                                       *)
(***************************************************************************)
C15_RuntimeAndDriverHandle ==
    \A t \in Threads :
        (op[t] = "create" /\ MyDevice[t] # NULL /\ pool[MyDevice[t]].allocated) =>
            /\ pool[MyDevice[t]].hRTDevice = reqIn[t].hDevice
            /\ pool[MyDevice[t]].CreateDevice.hDevice = reqIn[t].hDevice
            /\ pc[t] \in {"c_acquire", "c_insert", "c_link", "c_release", "idle"} =>
                   pool[MyDevice[t]].hDevice = pCreateDevice[t].hDevice

C15_Witness ==
    \E t \in Threads :
        /\ ReturnedCreate(t) /\ NT_SUCCESS(ret[t])
        /\ reqIn[t].hDevice = 256 /\ pCreateDevice[t].hDevice = 512
        /\ LJB_DXGK_FindDevice(512) = MyDevice[t]
        /\ pool[LJB_DXGK_FindDevice(512)].hRTDevice = 256

(***************************************************************************)
(* C20.  The release restores the IRQL the acquire of the same call saved: *)
(* a thread that owns the lock runs at DISPATCH_LEVEL with its entry level *)
(* saved in oldIrql, a thread that is back from either function runs at    *)
(* the level it entered with, and the inbox driver is called at the entry  *)
(* level, below DISPATCH_LEVEL.                                            *)
(***************************************************************************)
C20_IrqlRestored ==
    \A t \in Threads :
        /\ ClientDeviceListLock = t => irql[t] = DISPATCH_LEVEL /\ oldIrql[t] = entryIrql[t]
        /\ ClientDeviceListLock # t => irql[t] = entryIrql[t]
        /\ pc[t] \in {"c_call", "c_check"} =>
               irql[t] = entryIrql[t] /\ irql[t] < DISPATCH_LEVEL

C20_Witness ==
    \E t1, t2 \in Threads :
        /\ pc[t1] = "idle" /\ op[t1] = "find" /\ lockAcqs[t1] = 1
        /\ entryIrql[t1] = DISPATCH_LEVEL /\ irql[t1] = DISPATCH_LEVEL
        /\ pc[t2] = "idle" /\ op[t2] = "find" /\ lockAcqs[t2] = 1
        /\ entryIrql[t2] = PASSIVE_LEVEL /\ irql[t2] = PASSIVE_LEVEL

(***************************************************************************)
(* C16.  InsertTailList appends: the list holds the records in the order   *)
(* in which their creators took the lock, an insertion puts the creator's  *)
(* record behind the records already there, and it changes neither their   *)
(* order nor any of their fields other than the list links.                *)
(***************************************************************************)
Contents(dev) == [dev EXCEPT !.ListEntry = NULL]

C16_State ==
    /\ Len(ListOrder) <= Len(lockOrder)
    /\ Len(lockOrder) <= Len(ListOrder) + 1
    /\ \A i \in 1..Len(ListOrder) : ListOrder[i] = lockOrder[i]
    /\ (\A t \in Threads : pc[t] \notin {"c_insert", "c_link"}) => ListOrder = lockOrder

C16_Step ==
    /\ \/ ListOrder' = ListOrder
       \/ \E t \in Threads :
            /\ pc[t] = "c_link" /\ pc'[t] = "c_release"
            /\ ListOrder' = Append(ListOrder, MyDevice[t])
    /\ \A r \in Devices : InList(r) => Contents(pool'[r]) = Contents(pool[r])

\* C16: the state and the step conditions above hold throughout every behaviour.
C16_AppendAtTail == []C16_State /\ [][C16_Step]_vars

C16_Witness ==
    /\ ListOrder = <<2, 1>>
    /\ lockOrder = <<2, 1>>
    /\ \A t \in Threads : ReturnedCreate(t)

(***************************************************************************)
(* C17.  A LJB_DXGK_CreateDevice call whose allocation succeeded calls the *)
(* inbox driver's DxgkDdiCreateDevice once: never before line 106, never a *)
(* second time, and not again after a failure status.                      *)
(***************************************************************************)
C17_DownstreamOnce ==
    \A t \in Threads :
        /\ dsCalls[t] <= 1
        /\ op[t] = "find" => dsCalls[t] = 0
        /\ pc[t] = "c_call" => dsCalls[t] = 0
        /\ ReturnedNoMemory(t) => dsCalls[t] = 0
        /\ (pc[t] \in {"c_check", "c_acquire", "c_insert", "c_link", "c_release"}
                \/ ReturnedCreate(t)) => dsCalls[t] = 1

C17_Witness ==
    \E t1, t2 \in Threads :
        /\ ReturnedCreate(t1) /\ ~NT_SUCCESS(ret[t1]) /\ dsCalls[t1] = 1
        /\ ReturnedCreate(t2) /\ NT_SUCCESS(ret[t2]) /\ dsCalls[t2] = 1

(***************************************************************************)
(* C18.  LJB_DXGK_FindDevice writes nothing but its locals and the lock:   *)
(* each of its steps leaves the list and every field of every record as    *)
(* they were, so the answer to every lookup stays the same, and the value  *)
(* it returns is the one the list determines.                              *)
(***************************************************************************)
FindDevice_Step(t) ==
    \/ pc[t] = "idle" /\ pc'[t] = "f_acquire"
    \/ /\ pc[t] \in {"f_acquire", "f_loop", "f_release"}
       /\ \/ pc'[t] # pc[t]
          \/ listEntry'[t] # listEntry[t]
          \/ MyDevice'[t] # MyDevice[t]

C18_Step ==
    \A t \in Threads :
        FindDevice_Step(t) =>
            /\ pool' = pool
            /\ ClientDeviceListHead' = ClientDeviceListHead
            /\ \A h \in Handles : LJB_DXGK_FindDevice(h)' = LJB_DXGK_FindDevice(h)
            /\ (pc[t] = "f_release" /\ pc'[t] = "idle") =>
                   ret'[t] = LJB_DXGK_FindDevice(hDeviceArg[t])

\* C18: every step of LJB_DXGK_FindDevice meets the condition above.
C18_FindLeavesRegistry == [][C18_Step]_vars

C18_Witness ==
    \E t1, t2 \in Threads :
        /\ t1 # t2
        /\ pc[t1] = "idle" /\ op[t1] = "find"
        /\ pc[t2] = "idle" /\ op[t2] = "find"
        /\ hDeviceArg[t1] = hDeviceArg[t2]
        /\ ret[t1] # NULL /\ ret[t1] = ret[t2]
        /\ Len(ListOrder) = 1

(***************************************************************************)
(* C19.  As stated: when every thread keeps running and the inbox driver   *)
(* returns, every call of either function returns.                         *)
(***************************************************************************)
C19_Original ==
    \A t \in Threads : (pc[t] # "idle") ~> (pc[t] = "idle")

Waiting(t) == pc[t] \in {"c_acquire", "f_acquire"}

\* Place of a record in the list.
Pos(r) == CHOOSE i \in 1..Len(ListOrder) : ListOrder[i] = r

\* A turn of the loop that moves on moves to the next record or to the head.
C19_ScanAdvances ==
    \A t \in Threads :
        (pc[t] = "f_loop" /\ listEntry'[t] # listEntry[t]) =>
            /\ listEntry[t] # listHead
            /\ InList(listEntry[t])
            /\ \/ listEntry'[t] = listHead /\ Pos(listEntry[t]) = Len(ListOrder)
               \/ /\ InList(listEntry'[t])
                  /\ Pos(listEntry'[t]) = Pos(listEntry[t]) + 1

(***************************************************************************)
(* C19, amended.  When every thread keeps running and the inbox driver     *)
(* returns: a thread that owns the lock releases it and returns without    *)
(* waiting again; a LJB_DXGK_CreateDevice call before its acquire returns  *)
(* or reaches the acquire; a thread that waits for the lock returns unless *)
(* other threads take the lock again and again for ever; the scan moves    *)
(* forward through the list, one record a turn.                            *)
(***************************************************************************)
C19_Termination ==
    /\ \A t \in Threads :
        (pc[t] # "idle" /\ ~Waiting(t)) ~>
            ((pc[t] = "idle" /\ ClientDeviceListLock # t) \/ (Waiting(t) /\ lockAcqs[t] = 0))
    /\ \A t \in Threads :
        (<>[](ClientDeviceListLock \in {0, t})) => (Waiting(t) ~> (pc[t] = "idle"))
    /\ [][C19_ScanAdvances]_vars

C19_Witness ==
    \E t1, t2 \in Threads :
        /\ Waiting(t1)
        /\ ClientDeviceListLock = t2
        /\ pc[t2] = "f_loop" /\ listEntry[t2] # listHead
        /\ ncalls = MaxLiveCalls
====
